---- MODULE Spec2Model ----
(***************************************************************************)
(* Streaming wildcard matcher built on an Aho-Corasick machine.            *)
(*                                                                         *)
(*   src/17.cpp                    pointer-based machine: sparse link maps, *)
(*                                 failure-link walk in process(), results  *)
(*                                 of the walk memoised into the link maps  *)
(*   src/17_double_array_trie.cpp  the same machine with dense link vectors *)
(*                                 completed by do_bfs(), flattened by      *)
(*                                 make_flat() and driven by main's loop    *)
(*                                 over a masked circular window            *)
(*                                                                         *)
(* Symbols are byte values.  Node ids stand for Node*: ids are handed out  *)
(* in allocation order, root is the first node and 0 is the null pointer   *)
(* (nodes[0] of the second file).                                          *)
(***************************************************************************)
EXTENDS Integers, Sequences, FiniteSets, TLC

\* ---------------------------------------------------------------- bounds
MaxPatLen == 4
MaxTextLen == 6
\* patterns and texts of SpecResume, where two machines are fed independently
MaxResumePatLen == 3
MaxResumeLen == 3
\* log2 of the circular window's size: MAX_SIZE is kept a power of two
MaxSizeLog == 2

\* ------------------------------------------------------------- constants
\* '?'
Wildcard == 63
\* the text symbols used: 'a', 'b'
Sigma == {97, 98}
NULL == 0
root == 1
ALPHABET_SIZE == 256
ALPHABET_SIZE_ALIGNED == ALPHABET_SIZE
\* 1 << 13 in the source, scaled down so that texts wrap around the window
MAX_SIZE == 2 ^ MaxSizeLog

\* ---------------------------------------------------------------- helpers
SeqsUpTo(S, n) == UNION {[1..k -> S] : k \in 0..n}

Patterns == SeqsUpTo(Sigma \cup {Wildcard}, MaxPatLen)

\* every order in which an unordered container may hand out the elements of S
Perms(S) ==
    {f \in [1..Cardinality(S) -> S] : \A x \in S : \E i \in 1..Cardinality(S) : f[i] = x}

\* ======================================================================
\* src/17.cpp
\* ======================================================================

\* Node(): no links, not terminal, no output, no failure link
new_Node(M) ==
    [M EXCEPT !.links = Append(@, [c \in Sigma |-> NULL]),
              !.terminal = Append(@, FALSE),
              !.output = Append(@, {}),
              !.link_fail = Append(@, NULL)]

\* mutant of split_loop: the run still open at the end of the pattern is dropped
RECURSIVE split_loop_no_trailing(_, _, _, _, _)
split_loop_no_trailing(pattern, i, word, pos, words) ==
    IF i > Len(pattern)
    THEN words
    ELSE IF pattern[i] = Wildcard
         THEN IF word # <<>>
              THEN split_loop_no_trailing(pattern, i + 1, <<>>, pos + 1, Append(words, <<word, pos>>))
              ELSE split_loop_no_trailing(pattern, i + 1, word, pos + 1, words)
         ELSE split_loop_no_trailing(pattern, i + 1, Append(word, pattern[i]), pos + 1, words)

RECURSIVE split_loop(_, _, _, _, _)
split_loop(pattern, i, word, pos, words) ==
    IF i > Len(pattern)
    THEN IF word # <<>> THEN Append(words, <<word, pos>>) ELSE words
    ELSE IF pattern[i] = Wildcard
         THEN IF word # <<>>
              THEN split_loop(pattern, i + 1, <<>>, pos + 1, Append(words, <<word, pos>>))
              ELSE split_loop(pattern, i + 1, word, pos + 1, words)
         ELSE split_loop(pattern, i + 1, Append(word, pattern[i]), pos + 1, words)

split_to_words(pattern) == split_loop(pattern, 1, <<>>, -1, <<>>)

RECURSIVE add_word_from(_, _, _, _, _)
add_word_from(M, node, word, i, ind) ==
    IF i > Len(word)
    THEN [M EXCEPT !.terminal[node] = TRUE, !.output[node] = @ \cup {ind}]
    ELSE LET c == word[i] IN
         IF M.links[node][c] # NULL
         THEN add_word_from(M, M.links[node][c], word, i + 1, ind)
         ELSE LET next_node == Len(M.links) + 1
                  M1 == new_Node(M)
              IN add_word_from([M1 EXCEPT !.links[node][c] = next_node],
                               next_node, word, i + 1, ind)

add_word(M, word, ind) == add_word_from(M, root, word, 1, ind)

\* the constructor up to and including build()'s call of split_to_words
PatternMatchingMachine(pattern) ==
    [pc |-> "add_word",
     pattern |-> pattern,
     pattern_size |-> Len(pattern),
     words |-> split_to_words(pattern),
     ind |-> 0,
     links |-> << [c \in Sigma |-> NULL] >>,
     terminal |-> << FALSE >>,
     output |-> << {} >>,
     link_fail |-> << NULL >>,
     q |-> <<>>,
     state_ |-> root,
     counter |-> 0,
     window |-> [i \in 1..Len(pattern) |-> 0],
     window_start |-> 0,
     out |-> <<>>,
     err |-> FALSE]

\* the machine before its constructor has run
NoMachine ==
    [pc |-> "new", pattern |-> <<>>, pattern_size |-> 0, words |-> <<>>, ind |-> 0,
     links |-> <<>>, terminal |-> <<>>, output |-> <<>>, link_fail |-> <<>>,
     q |-> <<>>, state_ |-> NULL, counter |-> 0, window |-> <<>>,
     window_start |-> 0, out |-> <<>>, err |-> FALSE]

goto_(M, state, c) ==
    IF M.links[state][c] # NULL THEN M.links[state][c]
    ELSE IF state = root THEN root
    ELSE NULL

failure(M, state) == M.link_fail[state]

\* the keys present in a node's link map
link_keys(M, node) == {c \in Sigma : M.links[node][c] # NULL}

\* build()'s loop body: one add_word per segment
build_add_word(M) ==
    LET word == M.words[M.ind + 1][1]
        pos == M.words[M.ind + 1][2]
    IN [add_word(M, word, pos) EXCEPT !.ind = M.ind + 1]

\* build_failure(), first loop, root's links visited in the given order
RECURSIVE build_failure_roots(_, _, _)
build_failure_roots(M, order, i) ==
    IF i > Len(order) THEN M
    ELSE LET node == M.links[root][order[i]]
         IN build_failure_roots(
                [M EXCEPT !.link_fail[node] = root, !.q = Append(@, node)],
                order, i + 1)

\* while (goto_(state, c) == nullptr) state = state->link_fail;
RECURSIVE fail_walk(_, _, _)
fail_walk(M, state, c) ==
    IF goto_(M, state, c) = NULL
    THEN fail_walk(M, M.link_fail[state], c)
    ELSE state

\* mutant of build_failure_edge: the output of the failure state is not merged in
build_failure_edge_no_inherit(M, node, c) ==
    LET node_next == M.links[node][c]
        state == fail_walk(M, M.link_fail[node], c)
        lf == goto_(M, state, c)
    IN [M EXCEPT !.link_fail[node_next] = lf,
                 !.q = Append(@, node_next)]

\* mutant of build_failure_edge: the walk starts at node, not at node->link_fail
build_failure_edge_from_node(M, node, c) ==
    LET node_next == M.links[node][c]
        state == fail_walk(M, node, c)
        lf == goto_(M, state, c)
        merged == M.output[node_next] \cup M.output[lf]
    IN [M EXCEPT !.link_fail[node_next] = lf,
                 !.output[node_next] = merged,
                 !.terminal[node_next] = IF merged # {} THEN TRUE ELSE @,
                 !.q = Append(@, node_next)]

\* build_failure(), body of the inner for loop for the edge node -c-> node_next
build_failure_edge(M, node, c) ==
    LET node_next == M.links[node][c]
        state == fail_walk(M, M.link_fail[node], c)
        lf == goto_(M, state, c)
        merged == M.output[node_next] \cup M.output[lf]
    IN [M EXCEPT !.link_fail[node_next] = lf,
                 !.output[node_next] = merged,
                 !.terminal[node_next] = IF merged # {} THEN TRUE ELSE @,
                 !.q = Append(@, node_next)]

RECURSIVE build_failure_edges(_, _, _, _)
build_failure_edges(M, node, order, i) ==
    IF i > Len(order) THEN M
    ELSE build_failure_edges(build_failure_edge(M, node, order[i]), node, order, i + 1)

\* build_failure(), one turn of the while loop: pop the front, visit its links
build_failure_node(M, order) ==
    LET node == Head(M.q)
    IN build_failure_edges([M EXCEPT !.q = Tail(@)], node, order, 1)

\* mutant of match_loop: the slot is the text position where the segment
\* ended, its end offset is not subtracted
RECURSIVE match_loop_by_end(_, _, _, _)
match_loop_by_end(M, pos, order, i) ==
    IF i > Len(order) \/ M.err THEN M
    ELSE LET pos_relative == pos - 1 - M.window_start
         IN IF pos_relative < 0
            THEN match_loop_by_end(M, pos, order, i + 1)
            ELSE IF pos_relative >= Len(M.window)
                 THEN [M EXCEPT !.err = TRUE]
                 ELSE match_loop_by_end(
                          [M EXCEPT !.window[pos_relative + 1] = @ + 1],
                          pos, order, i + 1)

\* mutant of match_loop: the loop is left (break) at the first entry that lies
\* before the window, not continued
RECURSIVE match_loop_break(_, _, _, _)
match_loop_break(M, pos, order, i) ==
    IF i > Len(order) \/ M.err THEN M
    ELSE LET word_pos == order[i]
             pos_relative == pos - word_pos - 1 - M.window_start
         IN IF pos_relative < 0
            THEN M
            ELSE IF pos_relative >= Len(M.window)
                 THEN [M EXCEPT !.err = TRUE]
                 ELSE match_loop_break([M EXCEPT !.window[pos_relative + 1] = @ + 1],
                                       pos, order, i + 1)

\* match(): the loop over state->output in the given order; window->at() throws
\* std::out_of_range past the end of the deque, which nobody catches
RECURSIVE match_loop(_, _, _, _)
match_loop(M, pos, order, i) ==
    IF i > Len(order) \/ M.err THEN M
    ELSE LET word_pos == order[i]
             pos_relative == pos - word_pos - 1 - M.window_start
         IN IF pos_relative < 0
            THEN match_loop(M, pos, order, i + 1)
            ELSE IF pos_relative >= Len(M.window)
                 THEN [M EXCEPT !.err = TRUE]
                 ELSE match_loop([M EXCEPT !.window[pos_relative + 1] = @ + 1],
                                 pos, order, i + 1)

match(M, pos, state, order) ==
    IF ~M.terminal[state] THEN M ELSE match_loop(M, pos, order, 1)

\* process(), lines 284-293: walk the failure links, then memoise the result
RECURSIVE walk_path(_, _, _)
walk_path(M, state, c) ==
    IF goto_(M, state, c) = NULL
    THEN <<state>> \o walk_path(M, failure(M, state), c)
    ELSE <<>>

\* mutant of memoise: the state where the walk ended (the failure state of the
\* last node left) gets the edge too
memoise_end_of_walk(M, path, c, target) ==
    [M EXCEPT !.links = [n \in DOMAIN M.links |->
        IF \/ \E k \in 1..Len(path) : path[k] = n
           \/ path # <<>> /\ n = M.link_fail[path[Len(path)]]
        THEN [M.links[n] EXCEPT ![c] = target]
        ELSE M.links[n]]]

\* mutant of memoise: the edge is set to the failure state of the node left,
\* not to the state reached
memoise_failure(M, path, c, target) ==
    [M EXCEPT !.links = [n \in DOMAIN M.links |->
        IF \E k \in 1..Len(path) : path[k] = n
        THEN [M.links[n] EXCEPT ![c] = M.link_fail[n]]
        ELSE M.links[n]]]

memoise(M, path, c, target) ==
    [M EXCEPT !.links = [n \in DOMAIN M.links |->
        IF \E k \in 1..Len(path) : path[k] = n
        THEN [M.links[n] EXCEPT ![c] = target]
        ELSE M.links[n]]]

\* mutant of shift_window: window_start is not advanced
shift_window_no_advance(M) ==
    [M EXCEPT !.window = Append(Tail(@), 0)]

\* mutant of shift_window: push_back(0) without the pop_front()
shift_window_no_pop(M) ==
    [M EXCEPT !.window = Append(@, 0), !.window_start = @ + 1]

\* pop_front(); push_back(0); window_start++
shift_window(M) ==
    [M EXCEPT !.window = Append(Tail(@), 0), !.window_start = @ + 1]

\* mutant of process_tail: a match is reported as soon as slot 0 is not zero
process_tail_nonzero(M, order) ==
    LET M1 == match(M, M.counter, M.state_, order)
    IN IF M1.err THEN M1
       ELSE IF M1.counter < M1.pattern_size THEN M1
       ELSE LET M2 == IF M1.window[1] > 0
                      THEN [M1 EXCEPT !.out = Append(@, M1.counter - M1.pattern_size)]
                      ELSE M1
            IN shift_window(M2)

\* mutant of process_tail: the check for fewer than pattern_size symbols is gone
process_tail_unprimed(M, order) ==
    LET M1 == match(M, M.counter, M.state_, order)
    IN IF M1.err THEN M1
       ELSE LET M2 == IF M1.window[1] = Len(M1.words)
                      THEN [M1 EXCEPT !.out = Append(@, M1.counter - M1.pattern_size)]
                      ELSE M1
            IN shift_window(M2)

\* process() after the automaton step: match, report, shift
process_tail(M, order) ==
    LET M1 == match(M, M.counter, M.state_, order)
    IN IF M1.err THEN M1
       ELSE IF M1.counter < M1.pattern_size THEN M1
       ELSE LET M2 == IF M1.window[1] = Len(M1.words)
                      THEN [M1 EXCEPT !.out = Append(@, M1.counter - M1.pattern_size)]
                      ELSE M1
            IN shift_window(M2)

\* mutant of process_no_words: returns while counter <= pattern_size
process_no_words_late(M) ==
    IF M.counter <= M.pattern_size THEN M
    ELSE IF M.pattern_size # 0
         THEN [M EXCEPT !.out = Append(@, M.counter - M.pattern_size)]
         ELSE [M EXCEPT !.out = Append(@, M.counter - 1)]

\* mutant of process_no_words: the empty pattern reports counter, not counter - 1
process_no_words_counter(M) ==
    IF M.counter < M.pattern_size THEN M
    ELSE IF M.pattern_size # 0
         THEN [M EXCEPT !.out = Append(@, M.counter - M.pattern_size)]
         ELSE [M EXCEPT !.out = Append(@, M.counter)]

\* process() when words is empty
process_no_words(M) ==
    IF M.counter < M.pattern_size THEN M
    ELSE IF M.pattern_size # 0
         THEN [M EXCEPT !.out = Append(@, M.counter - M.pattern_size)]
         ELSE [M EXCEPT !.out = Append(@, M.counter - 1)]

\* the automaton step of process()
process_step(M, c) ==
    LET path == walk_path(M, M.state_, c)
        last == fail_walk(M, M.state_, c)
        next == goto_(M, last, c)
    IN [memoise(M, path, c, next) EXCEPT !.state_ = next]

\* the orders in which match() may iterate the output set of the state that
\* process() reaches on c
match_orders(M, c) ==
    IF M.words = <<>> THEN {<<>>}
    ELSE Perms(M.output[goto_(M, fail_walk(M, M.state_, c), c)])

process(M, c, order) ==
    LET M0 == [M EXCEPT !.counter = @ + 1]
    IN IF M0.words = <<>> THEN process_no_words(M0)
       ELSE process_tail(process_step(M0, c), order)


\* ======================================================================
\* src/17_double_array_trie.cpp
\* ======================================================================

RECURSIVE SortedSeq(_)
SortedSeq(S) ==
    IF S = {} THEN <<>>
    ELSE LET m == CHOOSE x \in S : \A y \in S : x <= y
         IN <<m>> \o SortedSeq(S \ {m})

\* the indices of a links vector, in the order the loops over it visit them
\* (restricted to the symbols that occur)
Bytes == SortedSeq(Sigma)

\* Trie::add_node(): Node(node_id) with ALPHABET_SIZE links, all 0
add_node(M) ==
    [M EXCEPT !.links = Append(@, [c \in Sigma |-> 0]),
              !.terminal = Append(@, FALSE),
              !.output = Append(@, {}),
              !.link_fail = Append(@, NULL)]

\* nodes[state->get_link(c)]; nodes[0] is the null pointer
flat_goto_(M, state, c) == M.links[state][c]

RECURSIVE flat_add_word_from(_, _, _, _, _)
flat_add_word_from(M, node, word, i, ind) ==
    IF i > Len(word)
    THEN [M EXCEPT !.terminal[node] = TRUE, !.output[node] = @ \cup {ind}]
    ELSE LET c == word[i]
             node_id == M.links[node][c]
         IN IF node_id # NULL
            THEN flat_add_word_from(M, node_id, word, i + 1, ind)
            ELSE LET next_node == Len(M.links) + 1
                     M1 == add_node(M)
                 IN flat_add_word_from([M1 EXCEPT !.links[node][c] = next_node],
                                       next_node, word, i + 1, ind)

flat_add_word(M, word, ind) == flat_add_word_from(M, root, word, 1, ind)

\* split_to_words() of the second file: the same text as the first file's
flat_split_to_words(pattern) == split_loop(pattern, 1, <<>>, -1, <<>>)

\* the constructor up to and including build()'s call of split_to_words;
\* Trie() pushes the null entry and adds the root
flat_PatternMatchingMachine(pattern) ==
    [pc |-> "add_word",
     pattern |-> pattern,
     pattern_size |-> Len(pattern),
     words |-> flat_split_to_words(pattern),
     ind |-> 0,
     links |-> << [c \in Sigma |-> 0] >>,
     terminal |-> << FALSE >>,
     output |-> << {} >>,
     link_fail |-> << NULL >>,
     q |-> <<>>,
     state_ |-> root,
     counter |-> 0,
     window |-> [i \in 1..Len(pattern) |-> 0],
     window_start |-> 0,
     out |-> <<>>,
     err |-> FALSE]

flat_build_add_word(M) ==
    LET word == M.words[M.ind + 1][1]
        pos == M.words[M.ind + 1][2]
    IN [flat_add_word(M, word, pos) EXCEPT !.ind = M.ind + 1]

\* build_failure(), first loop: a missing link of the root is set to the root
RECURSIVE flat_build_failure_roots(_, _)
flat_build_failure_roots(M, i) ==
    IF i > Len(Bytes) THEN M
    ELSE LET c == Bytes[i]
             node == M.links[root][c]
         IN IF node = NULL
            THEN flat_build_failure_roots([M EXCEPT !.links[root][c] = root], i + 1)
            ELSE flat_build_failure_roots(
                     [M EXCEPT !.link_fail[node] = root, !.q = Append(@, node)], i + 1)

RECURSIVE flat_fail_walk(_, _, _)
flat_fail_walk(M, state, c) ==
    IF flat_goto_(M, state, c) = NULL
    THEN flat_fail_walk(M, M.link_fail[state], c)
    ELSE state

flat_build_failure_edge(M, node, c) ==
    LET node_next == M.links[node][c]
    IN IF node_next = NULL THEN M
       ELSE LET state == flat_fail_walk(M, M.link_fail[node], c)
                lf == flat_goto_(M, state, c)
                merged == M.output[node_next] \cup M.output[lf]
            IN [M EXCEPT !.link_fail[node_next] = lf,
                         !.output[node_next] = merged,
                         !.terminal[node_next] = IF merged # {} THEN TRUE ELSE @,
                         !.q = Append(@, node_next)]

RECURSIVE flat_build_failure_edges(_, _, _)
flat_build_failure_edges(M, node, i) ==
    IF i > Len(Bytes) THEN M
    ELSE flat_build_failure_edges(flat_build_failure_edge(M, node, Bytes[i]), node, i + 1)

flat_build_failure_node(M) ==
    LET node == Head(M.q)
    IN flat_build_failure_edges([M EXCEPT !.q = Tail(@)], node, 1)

\* mutant of do_bfs_roots: the first loop tests node != nullptr, not node != root
RECURSIVE do_bfs_roots_with_root(_, _)
do_bfs_roots_with_root(M, i) ==
    IF i > Len(Bytes) THEN M
    ELSE LET node == M.links[root][Bytes[i]]
         IN IF node # NULL
            THEN do_bfs_roots_with_root([M EXCEPT !.q = Append(@, node)], i + 1)
            ELSE do_bfs_roots_with_root(M, i + 1)

\* do_bfs(), first loop
RECURSIVE do_bfs_roots(_, _)
do_bfs_roots(M, i) ==
    IF i > Len(Bytes) THEN M
    ELSE LET node == M.links[root][Bytes[i]]
         IN IF node # root
            THEN do_bfs_roots([M EXCEPT !.q = Append(@, node)], i + 1)
            ELSE do_bfs_roots(M, i + 1)

\* mutant of do_bfs_edge: a missing edge is left missing
do_bfs_edge_unfilled(M, node, c) ==
    LET node_next == M.links[node][c]
    IN IF node_next = NULL
       THEN M
       ELSE [M EXCEPT !.q = Append(@, node_next)]

\* do_bfs(), body of the inner loop; set_link(c, state) reads state->node_id,
\* so a null state is a null dereference
do_bfs_edge(M, node, c) ==
    LET node_next == M.links[node][c]
    IN IF node_next = NULL
       THEN LET state == flat_goto_(M, failure(M, node), c)
            IN IF state = NULL THEN [M EXCEPT !.err = TRUE]
               ELSE [M EXCEPT !.links[node][c] = state]
       ELSE [M EXCEPT !.q = Append(@, node_next)]

RECURSIVE do_bfs_edges(_, _, _)
do_bfs_edges(M, node, i) ==
    IF i > Len(Bytes) \/ M.err THEN M
    ELSE do_bfs_edges(do_bfs_edge(M, node, Bytes[i]), node, i + 1)

\* mutant of do_bfs_node: the queue is used as a stack (q.back(), pop_back())
do_bfs_node_lifo(M) ==
    LET node == M.q[Len(M.q)]
    IN do_bfs_edges([M EXCEPT !.q = SubSeq(@, 1, Len(@) - 1)], node, 1)

do_bfs_node(M) ==
    LET node == Head(M.q)
    IN do_bfs_edges([M EXCEPT !.q = Tail(@)], node, 1)

\* match() of the second file: the same text as the first file's
flat_match(M, pos, state, order) ==
    IF ~M.terminal[state] THEN M ELSE match_loop(M, pos, order, 1)

\* process() of the second file after the automaton step
flat_process_tail(M, order) ==
    LET M1 == flat_match(M, M.counter, M.state_, order)
    IN IF M1.err THEN M1
       ELSE IF M1.counter < M1.pattern_size THEN M1
       ELSE LET M2 == IF M1.window[1] = Len(M1.words)
                      THEN [M1 EXCEPT !.out = Append(@, M1.counter - M1.pattern_size)]
                      ELSE M1
            IN [M2 EXCEPT !.window = Append(Tail(@), 0), !.window_start = @ + 1]

flat_process_no_words(M) ==
    IF M.counter < M.pattern_size THEN M
    ELSE IF M.pattern_size # 0
         THEN [M EXCEPT !.out = Append(@, M.counter - M.pattern_size)]
         ELSE [M EXCEPT !.out = Append(@, M.counter - 1)]

flat_match_orders(M, c) ==
    IF M.words = <<>> THEN {<<>>}
    ELSE Perms(M.output[flat_goto_(M, M.state_, c)])

flat_process(M, c, order) ==
    LET M0 == [M EXCEPT !.counter = @ + 1]
    IN IF M0.words = <<>> THEN flat_process_no_words(M0)
       ELSE flat_process_tail([M0 EXCEPT !.state_ = flat_goto_(M0, M0.state_, c)], order)

words_size(M) == Len(M.words)

nodes_size(M) == (Len(M.links) + 1) - 1

\* one order of iteration for each node's output set
RECURSIVE OutputOrders(_, _)
OutputOrders(M, i) ==
    IF i > Len(M.output) THEN {<<>>}
    ELSE {<<p>> \o rest : p \in Perms(M.output[i]), rest \in OutputOrders(M, i + 1)}

\* mutant of make_flat: an output row holds end_offset, not end_offset + 1
make_flat_unshifted(M, orders) ==
    [transitions |->
        [pos \in {(i - 1) * ALPHABET_SIZE_ALIGNED + j : i \in 1..Len(M.links), j \in Sigma} |->
            LET i == (pos \div ALPHABET_SIZE_ALIGNED) + 1
                j == pos % ALPHABET_SIZE_ALIGNED
            IN (M.links[i][j] - 1) * ALPHABET_SIZE_ALIGNED],
     output |->
        [k \in 0..(Len(M.links) - 1) |->
            [n \in 1..Len(orders[k + 1]) |-> orders[k + 1][n]] \o <<0>>],
     machine |-> [M EXCEPT !.output = [n \in DOMAIN M.output |-> {}]]]

\* make_flat(): the tables, and the machine with its output sets cleared.
\* transitions is indexed by (i - 1) * ALPHABET_SIZE_ALIGNED + j, output by i - 1;
\* an output row holds end_offset + 1 for each entry, then the terminating 0
make_flat(M, orders) ==
    [transitions |->
        [pos \in {(i - 1) * ALPHABET_SIZE_ALIGNED + j : i \in 1..Len(M.links), j \in Sigma} |->
            LET i == (pos \div ALPHABET_SIZE_ALIGNED) + 1
                j == pos % ALPHABET_SIZE_ALIGNED
            IN (M.links[i][j] - 1) * ALPHABET_SIZE_ALIGNED],
     output |->
        [k \in 0..(Len(M.links) - 1) |->
            [n \in 1..Len(orders[k + 1]) |-> orders[k + 1][n] + 1] \o <<0>>],
     machine |-> [M EXCEPT !.output = [n \in DOMAIN M.output |-> {}]]]

RECURSIVE BitAnd(_, _)
BitAnd(a, b) ==
    IF a = 0 \/ b = 0 THEN 0
    ELSE (a % 2) * (b % 2) + 2 * BitAnd(a \div 2, b \div 2)

\* main before the pattern has been read
NoMain ==
    [pc |-> "new", pattern_size |-> 0, window |-> <<>>, transitions |-> <<>>,
     output |-> <<>>, words_size |-> 0, nodes_size |-> 0, pos |-> 0, state |-> 0,
     at_eof |-> FALSE, out |-> <<>>]

\* main, lines 388-411, given the machine its constructor built.  The pattern
\* loop of lines 390-396 leaves the pattern empty only when it stopped on EOF
main_start(pattern, M, orders) ==
    LET flat == make_flat(M, orders)
    IN [pc |-> "loop",
        pattern_size |-> Len(pattern),
        window |-> [k \in 0..(MAX_SIZE - 1) |-> 0],
        transitions |-> flat.transitions,
        output |-> flat.output,
        words_size |-> words_size(flat.machine),
        nodes_size |-> nodes_size(flat.machine),
        pos |-> 0,
        state |-> 0,
        at_eof |-> (pattern = <<>>),
        out |-> <<>>]

\* mutant of main_out_loop: a start is counted only when pos_next > 0
RECURSIVE main_out_loop_positive(_, _, _)
main_out_loop_positive(F, row, j) ==
    IF ~(row[j] > 0) THEN F
    ELSE LET pos_next == F.pos - row[j]
         IN IF pos_next > 0
            THEN main_out_loop_positive(
                     [F EXCEPT !.window[BitAnd(pos_next, MAX_SIZE - 1)] = @ + 1],
                     row, j + 1)
            ELSE main_out_loop_positive(F, row, j + 1)

\* main, lines 420-425: the loop over the reached state's output row
RECURSIVE main_out_loop(_, _, _)
main_out_loop(F, row, j) ==
    IF ~(row[j] > 0) THEN F
    ELSE LET pos_next == F.pos - row[j]
         IN IF pos_next >= 0
            THEN main_out_loop(
                     [F EXCEPT !.window[BitAnd(pos_next, MAX_SIZE - 1)] = @ + 1],
                     row, j + 1)
            ELSE main_out_loop(F, row, j + 1)

\* mutant of main_loop: the slot that was checked is reset only when it
\* reported a match
main_loop_reset_on_match(F, c) ==
    LET F1 == [F EXCEPT !.state = F.transitions[F.state + c], !.pos = @ + 1]
        F2 == main_out_loop(F1, F1.output[F1.state \div (2 ^ 8)], 1)
        prev_pos == F2.pos - F2.pattern_size
    IN IF prev_pos >= 0
       THEN LET prev_pos_masked == BitAnd(prev_pos, MAX_SIZE - 1)
            IN IF F2.window[prev_pos_masked] = F2.words_size
               THEN [F2 EXCEPT !.out = Append(@, prev_pos),
                               !.window[prev_pos_masked] = 0]
               ELSE F2
       ELSE F2

\* mutant of main_loop: the slot that was checked is not reset
main_loop_no_reset(F, c) ==
    LET F1 == [F EXCEPT !.state = F.transitions[F.state + c], !.pos = @ + 1]
        F2 == main_out_loop(F1, F1.output[F1.state \div (2 ^ 8)], 1)
        prev_pos == F2.pos - F2.pattern_size
    IN IF prev_pos >= 0
       THEN LET prev_pos_masked == BitAnd(prev_pos, MAX_SIZE - 1)
            IN IF F2.window[prev_pos_masked] = F2.words_size
               THEN [F2 EXCEPT !.out = Append(@, prev_pos)]
               ELSE F2
       ELSE F2

\* main, lines 417-433: the loop body for one text symbol c > 32
main_loop(F, c) ==
    LET F1 == [F EXCEPT !.state = F.transitions[F.state + c], !.pos = @ + 1]
        F2 == main_out_loop(F1, F1.output[F1.state \div (2 ^ 8)], 1)
        prev_pos == F2.pos - F2.pattern_size
    IN IF prev_pos >= 0
       THEN LET prev_pos_masked == BitAnd(prev_pos, MAX_SIZE - 1)
                F3 == IF F2.window[prev_pos_masked] = F2.words_size
                      THEN [F2 EXCEPT !.out = Append(@, prev_pos)]
                      ELSE F2
            IN [F3 EXCEPT !.window[prev_pos_masked] = 0]
       ELSE F2

\* ======================================================================
\* The state machine
\* ======================================================================
VARIABLES
    pattern,    \* the pattern handed to every machine
    text,       \* the text symbols delivered so far
    pm,         \* a machine of 17.cpp
    pm2,        \* a second machine of 17.cpp, built from the same pattern
    fm,         \* a machine of 17_double_array_trie.cpp, driven through process()
    fl,         \* main of 17_double_array_trie.cpp: the tables and the loop's locals
    visits      \* history of the running BFS pass: per state, how often it
                \* was pushed on q and how often it was popped from q

vars == <<pattern, text, pm, pm2, fm, fl, visits>>

NoVisits == [enq |-> <<>>, deq |-> <<>>]

Count(q, n) == Cardinality({k \in DOMAIN q : q[k] = n})

\* the first loop of a BFS pass has run: q holds what it pushed
pass_start(M) ==
    [enq |-> [n \in DOMAIN M.links |-> Count(M.q, n)],
     deq |-> [n \in DOMAIN M.links |-> 0]]

\* one turn of the while loop of a BFS pass took q to q_next: the front was
\* popped, and what follows the rest of q in q_next was pushed
pass_turn(v, q, q_next) ==
    LET pushed == SubSeq(q_next, Len(q), Len(q_next))
    IN [enq |-> [n \in DOMAIN v.enq |-> v.enq[n] + Count(pushed, n)],
        deq |-> [v.deq EXCEPT ![Head(q)] = @ + 1]]

Init ==
    /\ pattern \in Patterns
    /\ text = <<>>
    /\ pm = NoMachine
    /\ pm2 = NoMachine
    /\ fm = NoMachine
    /\ fl = NoMain
    /\ visits = NoVisits

\* ---- 17.cpp: the constructor, step by step
Construct ==
    /\ pm.pc = "new"
    /\ pm' = PatternMatchingMachine(pattern)
    /\ UNCHANGED <<pattern, text, pm2, fm, fl, visits>>

AddWord ==
    /\ pm.pc = "add_word" /\ pm.ind < Len(pm.words)
    /\ pm' = build_add_word(pm)
    /\ UNCHANGED <<pattern, text, pm2, fm, fl, visits>>

BuildFailureRoots ==
    /\ pm.pc = "add_word" /\ pm.ind = Len(pm.words)
    /\ \E order \in Perms(link_keys(pm, root)) :
          pm' = [build_failure_roots(pm, order, 1) EXCEPT !.pc = "build_failure"]
    /\ UNCHANGED <<pattern, text, pm2, fm, fl>>
    /\ visits' = pass_start(pm')

BuildFailureNode ==
    /\ pm.pc = "build_failure" /\ pm.q # <<>>
    /\ \E order \in Perms(link_keys(pm, Head(pm.q))) :
          pm' = build_failure_node(pm, order)
    /\ UNCHANGED <<pattern, text, pm2, fm, fl>>
    /\ visits' = pass_turn(visits, pm.q, pm'.q)

BuildDone ==
    /\ pm.pc = "build_failure" /\ pm.q = <<>>
    /\ pm' = [pm EXCEPT !.pc = "ready"]
    /\ UNCHANGED <<pattern, text, pm2, fm, fl, visits>>

\* ---- 17.cpp: a second construction from the same pattern
Construct2 ==
    /\ pm.pc = "ready" /\ pm2.pc = "new"
    /\ pm2' = PatternMatchingMachine(pattern)
    /\ UNCHANGED <<pattern, text, pm, fm, fl, visits>>

AddWord2 ==
    /\ pm2.pc = "add_word" /\ pm2.ind < Len(pm2.words)
    /\ pm2' = build_add_word(pm2)
    /\ UNCHANGED <<pattern, text, pm, fm, fl, visits>>

BuildFailureRoots2 ==
    /\ pm2.pc = "add_word" /\ pm2.ind = Len(pm2.words)
    /\ \E order \in Perms(link_keys(pm2, root)) :
          pm2' = [build_failure_roots(pm2, order, 1) EXCEPT !.pc = "build_failure"]
    /\ UNCHANGED <<pattern, text, pm, fm, fl>>
    /\ visits' = pass_start(pm2')

BuildFailureNode2 ==
    /\ pm2.pc = "build_failure" /\ pm2.q # <<>>
    /\ \E order \in Perms(link_keys(pm2, Head(pm2.q))) :
          pm2' = build_failure_node(pm2, order)
    /\ UNCHANGED <<pattern, text, pm, fm, fl>>
    /\ visits' = pass_turn(visits, pm2.q, pm2'.q)

BuildDone2 ==
    /\ pm2.pc = "build_failure" /\ pm2.q = <<>>
    /\ pm2' = [pm2 EXCEPT !.pc = "ready"]
    /\ UNCHANGED <<pattern, text, pm, fm, fl, visits>>

\* ---- 17_double_array_trie.cpp: the constructor, step by step
FlatConstruct ==
    /\ pm2.pc = "ready" /\ fm.pc = "new"
    /\ fm' = flat_PatternMatchingMachine(pattern)
    /\ UNCHANGED <<pattern, text, pm, pm2, fl, visits>>

FlatAddWord ==
    /\ fm.pc = "add_word" /\ fm.ind < Len(fm.words)
    /\ fm' = flat_build_add_word(fm)
    /\ UNCHANGED <<pattern, text, pm, pm2, fl, visits>>

FlatBuildFailureRoots ==
    /\ fm.pc = "add_word" /\ fm.ind = Len(fm.words)
    /\ fm' = [flat_build_failure_roots(fm, 1) EXCEPT !.pc = "build_failure"]
    /\ UNCHANGED <<pattern, text, pm, pm2, fl>>
    /\ visits' = pass_start(fm')

FlatBuildFailureNode ==
    /\ fm.pc = "build_failure" /\ fm.q # <<>>
    /\ fm' = flat_build_failure_node(fm)
    /\ UNCHANGED <<pattern, text, pm, pm2, fl>>
    /\ visits' = pass_turn(visits, fm.q, fm'.q)

DoBfsRoots ==
    /\ fm.pc = "build_failure" /\ fm.q = <<>>
    /\ fm' = [do_bfs_roots(fm, 1) EXCEPT !.pc = "do_bfs"]
    /\ UNCHANGED <<pattern, text, pm, pm2, fl>>
    /\ visits' = pass_start(fm')

DoBfsNode ==
    /\ fm.pc = "do_bfs" /\ fm.q # <<>> /\ ~fm.err
    /\ fm' = do_bfs_node(fm)
    /\ UNCHANGED <<pattern, text, pm, pm2, fl>>
    /\ visits' = pass_turn(visits, fm.q, fm'.q)

FlatBuildDone ==
    /\ fm.pc = "do_bfs" /\ fm.q = <<>> /\ ~fm.err
    /\ fm' = [fm EXCEPT !.pc = "ready"]
    /\ UNCHANGED <<pattern, text, pm, pm2, fl, visits>>

\* main flattens the machine it has built and deletes it; fm stays the machine
\* as build() left it, for the callers of process()
MainStart ==
    /\ fm.pc = "ready" /\ fl.pc = "new"
    /\ \E orders \in OutputOrders(fm, 1) : fl' = main_start(pattern, fm, orders)
    /\ UNCHANGED <<pattern, text, pm, pm2, fm, visits>>

\* ---- one text symbol is delivered to every machine.  main's loop gets it
\* unless its input ended with the (empty) pattern
Feed(c) ==
    /\ fl.pc = "loop"
    /\ Len(text) < MaxTextLen
    /\ ~pm.err /\ ~pm2.err /\ ~fm.err
    /\ text' = Append(text, c)
    /\ \E order \in match_orders(pm, c) : pm' = process(pm, c, order)
    /\ \E order \in match_orders(pm2, c) : pm2' = process(pm2, c, order)
    /\ \E order \in flat_match_orders(fm, c) : fm' = flat_process(fm, c, order)
    /\ fl' = IF fl.at_eof THEN fl ELSE main_loop(fl, c)
    /\ UNCHANGED <<pattern, visits>>

Build ==
    \/ Construct \/ AddWord \/ BuildFailureRoots \/ BuildFailureNode \/ BuildDone
    \/ Construct2 \/ AddWord2 \/ BuildFailureRoots2 \/ BuildFailureNode2 \/ BuildDone2

FlatBuild ==
    \/ FlatConstruct \/ FlatAddWord \/ FlatBuildFailureRoots \/ FlatBuildFailureNode
    \/ DoBfsRoots \/ DoBfsNode \/ FlatBuildDone \/ MainStart

Next == Build \/ FlatBuild \/ (\E c \in Sigma : Feed(c))

Spec == Init /\ [][Next]_vars


\* ---- two machines of 17.cpp over one pattern, each fed a text of its own:
\* the first may lead by one symbol, or both take the same symbol together
InitResume ==
    /\ pattern \in SeqsUpTo(Sigma \cup {Wildcard}, MaxResumePatLen)
    /\ text = <<>>
    /\ pm = NoMachine
    /\ pm2 = NoMachine
    /\ fm = NoMachine
    /\ fl = NoMain
    /\ visits = NoVisits

FeedFirst(c) ==
    /\ pm2.pc = "ready"
    /\ pm.counter = pm2.counter /\ pm.counter < MaxResumeLen
    /\ ~pm.err
    /\ \E order \in match_orders(pm, c) : pm' = process(pm, c, order)
    /\ UNCHANGED <<pattern, text, pm2, fm, fl, visits>>

FeedSecond(c) ==
    /\ pm2.pc = "ready"
    /\ pm2.counter < pm.counter
    /\ ~pm2.err
    /\ \E order \in match_orders(pm2, c) : pm2' = process(pm2, c, order)
    /\ UNCHANGED <<pattern, text, pm, fm, fl, visits>>

FeedBoth(c) ==
    /\ pm2.pc = "ready"
    /\ pm.counter = pm2.counter /\ pm.counter < MaxResumeLen
    /\ ~pm.err /\ ~pm2.err
    /\ \E order \in match_orders(pm, c) : pm' = process(pm, c, order)
    /\ \E order \in match_orders(pm2, c) : pm2' = process(pm2, c, order)
    /\ UNCHANGED <<pattern, text, fm, fl, visits>>

NextResume ==
    \/ Build
    \/ \E c \in Sigma : FeedFirst(c)
    \/ \E c \in Sigma : FeedSecond(c)
    \/ \E c \in Sigma : FeedBoth(c)

SpecResume == InitResume /\ [][NextResume]_vars

\* ======================================================================
\* Properties
\* ======================================================================

\* the pattern occurs in t at start s (0-based): every position that is not a
\* wildcard equals the text symbol under it
Occurs(p, t, s) ==
    /\ 0 <= s /\ s + Len(p) <= Len(t)
    /\ \A j \in 1..Len(p) : p[j] = Wildcard \/ p[j] = t[s + j]

\* the starts of all occurrences, in increasing order
RefOffsets(p, t) == SortedSeq({s \in 0..Len(t) : Occurs(p, t, s)})

\* what a step appended to an output
NewOut(old, new) == SubSeq(new, Len(old) + 1, Len(new))

Matching == fl.pc = "loop"

Fed == text' # text


\* ---------------------------------------------------------------------
\* C1: for a pattern of length m >= 1 the offsets emitted while the text is fed
\* symbol by symbol are exactly the starts s, 0 <= s <= n - m, at which every
\* pattern position is the wildcard or equals the text symbol under it; this
\* holds of process()/match() of 17.cpp and of main's loop over the flat tables.
C1_ExactOccurrences ==
    (Matching /\ Len(pattern) >= 1) =>
        /\ pm.out = RefOffsets(pattern, text)
        /\ fl.out = RefOffsets(pattern, text)

\* overlapping occurrences of a pattern with a wildcard between two segments
C1_Witness ==
    /\ Matching
    /\ pattern = <<97, Wildcard, 97>>
    /\ text = <<97, 97, 97, 97, 97>>
    /\ pm.out = <<0, 1, 2>>
    /\ fl.out = <<0, 1, 2>>

\* ---------------------------------------------------------------------
\* C2: a processed symbol emits at most one offset and never takes one back;
\* for m >= 1 the step that makes pos symbols processed emits pos - m exactly
\* when pos >= m and the pattern occurs at pos - m, and nothing else; so the
\* offsets emitted are strictly increasing.
StrictlyIncreasing(o) == \A i \in 1..(Len(o) - 1) : o[i] < o[i + 1]

EmitsOnTime(old, new, pos) ==
    /\ Len(new) <= Len(old) + 1
    /\ SubSeq(new, 1, Len(old)) = old
    /\ StrictlyIncreasing(new)
    /\ Len(pattern) >= 1 =>
          NewOut(old, new) =
              IF pos >= Len(pattern) /\ Occurs(pattern, text', pos - Len(pattern))
              THEN <<pos - Len(pattern)>>
              ELSE <<>>

C2_OneOffsetOnTime ==
    [][Fed => /\ EmitsOnTime(pm.out, pm'.out, pm'.counter)
              /\ EmitsOnTime(fl.out, fl'.out, Len(text'))]_vars

\* two occurrences emitted by steps that are not consecutive
C2_Witness ==
    /\ Matching
    /\ Len(pattern) = 2
    /\ pm.counter = 5
    /\ pm.out = <<1, 3>>
    /\ fl.out = <<1, 3>>

\* ---------------------------------------------------------------------
\* C3: with no segment (a pattern of wildcards only) process() does no automaton
\* step and no window update; for m >= 1 the step that makes pos symbols
\* processed emits pos - m when pos >= m and nothing before, so n symbols give
\* 0..n-m; for m = 0 every step emits pos - 1.
NoWordsStep(M, N) ==
    /\ N.state_ = M.state_
    /\ N.window = M.window
    /\ N.window_start = M.window_start
    /\ N.links = M.links
    /\ N.counter = M.counter + 1
    /\ NewOut(M.out, N.out) =
          IF M.pattern_size = 0 THEN <<N.counter - 1>>
          ELSE IF N.counter >= M.pattern_size THEN <<N.counter - M.pattern_size>>
          ELSE <<>>
    /\ M.pattern_size >= 1 =>
          N.out = [i \in 1..(IF N.counter >= M.pattern_size
                             THEN N.counter - M.pattern_size + 1 ELSE 0) |-> i - 1]

C3_AllWildcards ==
    [][(Fed /\ pm.words = <<>>) => /\ NoWordsStep(pm, pm')
                                  /\ NoWordsStep(fm, fm')]_vars

\* '???' on a text of length 5
C3_Witness ==
    /\ Matching
    /\ pattern = <<Wildcard, Wildcard, Wildcard>>
    /\ Len(text) = 5
    /\ pm.words = <<>>
    /\ pm.out = <<0, 1, 2>>
    /\ fm.out = <<0, 1, 2>>

\* ---------------------------------------------------------------------
\* C4 as stated: for the pattern of length 0 and a text of length n the offsets
\* emitted are exactly 0, 1, ..., n.
C4_Original ==
    (Matching /\ pattern = <<>>) =>
        pm.out = [i \in 1..(Len(text) + 1) |-> i - 1]

\* C4 as amended: for the pattern of length 0 and a text of length n, process()
\* emits one offset per symbol, pos - 1, so exactly 0, 1, ..., n-1 and never n;
\* main of the second file reads an empty pattern only at the end of its input,
\* so its loop gets no symbol and emits nothing.
C4_EmptyPattern ==
    (Matching /\ pattern = <<>>) =>
        /\ pm.out = [i \in 1..Len(text) |-> i - 1]
        /\ fm.out = [i \in 1..Len(text) |-> i - 1]
        /\ fl.out = <<>> /\ fl.pos = 0

C4_Witness ==
    /\ Matching
    /\ pattern = <<>>
    /\ Len(text) = 3
    /\ pm.out = <<0, 1, 2>>
    /\ fl.out = <<>>

Edges(M) == {<<n, c>> \in (DOMAIN M.links) \X Sigma : M.links[n][c] # NULL}

Agree == /\ pm.state_ = pm2.state_
         /\ pm.counter = pm2.counter
         /\ pm.window = pm2.window
         /\ pm.window_start = pm2.window_start

C8_Resumable ==
    [][(Agree /\ pm'.counter = pm.counter + 1 /\ pm2'.counter = pm2.counter + 1) =>
          /\ Agree'
          /\ NewOut(pm.out, pm'.out) = NewOut(pm2.out, pm2'.out)]_vars

\* two machines that agree after different texts which left different edges
C8_Witness ==
    /\ pm2.pc = "ready"
    /\ Agree
    /\ pm.counter = MaxResumeLen
    /\ pm.links # pm2.links
    /\ pm.out # pm2.out

\* ---------------------------------------------------------------------
\* C9: two constructions from the same pattern, each iterating the link maps
\* and the output sets in an order of its own, give machines that have emitted
\* the same offsets after every text.
C9_SameAfterRebuild ==
    Matching => pm.out = pm2.out

\* two children of the root and a state with two outputs: both constructions
\* and both matchers had orders to choose from
C9_Witness ==
    /\ Matching
    /\ Cardinality(link_keys(pm2, root)) = 2
    /\ \E n \in DOMAIN pm2.output : Cardinality(pm2.output[n]) = 2
    /\ Len(text) = MaxTextLen
    /\ pm.out # <<>>
    /\ pm.out = pm2.out

\* ---------------------------------------------------------------------
\* C10: every window slot holds a value between 0 and the number of segments.
C10_WindowBounded ==
    /\ \A i \in DOMAIN pm.window : pm.window[i] \in 0..Len(pm.words)
    /\ \A i \in DOMAIN fm.window : fm.window[i] \in 0..Len(fm.words)
    /\ \A i \in DOMAIN fl.window : fl.window[i] \in 0..fl.words_size

\* a slot that has reached the number of segments before it is checked
C10_Witness ==
    /\ Matching
    /\ Len(pm.words) = 2
    /\ \E i \in DOMAIN pm.window : pm.window[i] = 2
    /\ \E i \in DOMAIN fl.window : fl.window[i] = 2


\* ---------------------------------------------------------------------
\* C11: with at least one segment, every slot index
\* rel = pos - end_offset - 1 - window_start that match() computes is less than
\* the window length m, and it is negative only while pos < m; so window->at()
\* never throws.
RelInRange(M, N) ==
    N.terminal[N.state_] =>
        \A e \in N.output[N.state_] :
            LET rel == N.counter - e - 1 - M.window_start
            IN /\ rel < Len(M.window)
               /\ rel < 0 => N.counter < M.pattern_size

C11_RelInWindow ==
    [][(Fed /\ pm.words # <<>>) =>
          /\ RelInRange(pm, pm') /\ ~pm'.err
          /\ RelInRange(fm, fm') /\ ~fm'.err]_vars

\* past priming, a segment that ends at pattern offset 0 has just been counted
\* in the last slot but one after the shift, i.e. at rel = m - 1
C11_Witness ==
    /\ Matching
    /\ pm.pattern_size >= 2
    /\ pm.counter > pm.pattern_size
    /\ 0 \in pm.output[pm.state_]
    /\ pm.window[pm.pattern_size - 1] >= 1
    /\ fm.window[fm.pattern_size - 1] >= 1
    /\ ~pm.err /\ ~fm.err


\* ---------------------------------------------------------------------
\* C12: with at least one segment, the slot for start s holds, after match() in
\* step pos, the number of segments (w, e) with s + e + 1 <= pos that occur in
\* the text ending at index s + e; so when step pos >= m checks slot 0 it holds
\* the number of segments aligned for the start pos - m.
SegmentEndsAt(w, e, t, s) ==
    /\ s + e + 1 <= Len(t)
    /\ \A k \in 1..Len(w) : t[s + e - Len(w) + k + 1] = w[k]

SlotCount(words, t, s) ==
    Cardinality({k \in 1..Len(words) :
                    SegmentEndsAt(words[k][1], words[k][2], t, s)})

\* the machine as match() leaves it in the step that processes c
AfterMatch(M, c, order) ==
    LET M0 == [M EXCEPT !.counter = @ + 1]
    IN match(process_step(M0, c), M0.counter, process_step(M0, c).state_, order)

\* main's locals after the loop over the output row in the step for c
AfterOutLoop(F, c) ==
    LET F1 == [F EXCEPT !.state = F.transitions[F.state + c], !.pos = @ + 1]
    IN main_out_loop(F1, F1.output[F1.state \div (2 ^ 8)], 1)

Prefixes(words) ==
    UNION {{SubSeq(words[k][1], 1, n) : n \in 0..Len(words[k][1])} : k \in 1..Len(words)}
        \cup {<<>>}

\* the state the trie reaches from the root on a prefix of a segment
RECURSIVE StateOf(_, _)
StateOf(M, p) ==
    IF p = <<>> THEN root
    ELSE M.links[StateOf(M, SubSeq(p, 1, Len(p) - 1))][p[Len(p)]]

Label(M, n) == CHOOSE p \in Prefixes(M.words) : StateOf(M, p) = n

IsSuffix(p, l) == Len(p) <= Len(l) /\ SubSeq(l, Len(l) - Len(p) + 1, Len(l)) = p

LongestProperSuffixState(M, n) ==
    LET l == Label(M, n)
        cands == {p \in Prefixes(M.words) : Len(p) < Len(l) /\ IsSuffix(p, l)}
    IN StateOf(M, CHOOSE p \in cands : \A r \in cands : Len(r) <= Len(p))

FailureLinksRight(M) ==
    /\ {StateOf(M, p) : p \in Prefixes(M.words)} = DOMAIN M.links
    /\ M.link_fail[root] = NULL
    /\ \A n \in (DOMAIN M.links) \ {root} :
          /\ M.link_fail[n] = LongestProperSuffixState(M, n)
          /\ Len(Label(M, M.link_fail[n])) < Len(Label(M, n))
          /\ Len(Label(M, n)) = 1 => M.link_fail[n] = root

C13_FailureLinks ==
    /\ pm.pc = "ready" => FailureLinksRight(pm)
    /\ fm.pc = "ready" => FailureLinksRight(fm)

\* a state whose failure link is not the root
C13_Witness ==
    /\ fm.pc = "ready"
    /\ \E n \in DOMAIN pm.links : pm.link_fail[n] \notin {NULL, root}
    /\ \E n \in DOMAIN fm.links : fm.link_fail[n] \notin {NULL, root}


\* ---------------------------------------------------------------------
\* C14: after build(), the output of every state is exactly the set of end
\* offsets of the segments that are a suffix of the state's label (its own and
\* the ones inherited through failure links), so segments with equal symbols
\* and different end offsets are all in the output of their shared state;
\* a state is terminal exactly when its output is non-empty, and the root's
\* output is empty.
SuffixOffsets(M, n) ==
    {M.words[k][2] : k \in {j \in 1..Len(M.words) : IsSuffix(M.words[j][1], Label(M, n))}}

OutputsRight(M) ==
    /\ M.output[root] = {}
    /\ \A n \in DOMAIN M.links :
          /\ M.output[n] = SuffixOffsets(M, n)
          /\ M.terminal[n] <=> M.output[n] # {}
    /\ \A j, k \in 1..Len(M.words) :
          M.words[j][1] = M.words[k][1] =>
              {M.words[j][2], M.words[k][2]} \subseteq M.output[StateOf(M, M.words[j][1])]

C14_OutputSets ==
    /\ pm.pc = "ready" => OutputsRight(pm)
    /\ fm.pc = "ready" => OutputsRight(fm)

\* a state that has an offset of its own and inherits another one from a
\* shorter segment through its failure link
C14_Witness ==
    /\ fm.pc = "ready"
    /\ \E n \in DOMAIN pm.links :
          /\ pm.link_fail[n] \notin {NULL, root}
          /\ pm.output[pm.link_fail[n]] # {}
          /\ pm.output[pm.link_fail[n]] \subseteq pm.output[n]
          /\ pm.output[n] # pm.output[pm.link_fail[n]]
          /\ fm.output[n] = pm.output[n]

\* two equal segments with different end offsets share one state
C14_SharedState ==
    /\ fm.pc = "ready"
    /\ \E j, k \in 1..Len(pm.words) :
          /\ j # k
          /\ pm.words[j][1] = pm.words[k][1]
          /\ Cardinality(pm.output[StateOf(pm, pm.words[j][1])]) >= 2
          /\ Cardinality(fm.output[StateOf(fm, fm.words[j][1])]) >= 2


\* ---------------------------------------------------------------------
\* C15: split_to_words returns, from left to right, exactly the maximal runs
\* of non-wildcard symbols of the pattern, each with the 0-based index of its
\* last symbol: no segment is empty, the end offsets increase strictly, a run
\* that reaches the end of the pattern is closed with end offset m - 1, and a
\* pattern without a non-wildcard symbol gives the empty list.
MaximalRuns(p) ==
    {r \in (1..Len(p)) \X (1..Len(p)) :
        /\ r[1] <= r[2]
        /\ \A k \in r[1]..r[2] : p[k] # Wildcard
        /\ r[1] = 1 \/ p[r[1] - 1] = Wildcard
        /\ r[2] = Len(p) \/ p[r[2] + 1] = Wildcard}

SplitRight(p, words) ==
    /\ Len(words) = Cardinality(MaximalRuns(p))
    /\ \A k \in 1..Len(words) :
          /\ words[k][1] # <<>>
          /\ \E r \in MaximalRuns(p) :
                words[k] = <<SubSeq(p, r[1], r[2]), r[2] - 1>>
    /\ \A j, k \in 1..Len(words) : j < k => words[j][2] < words[k][2]
    /\ (p # <<>> /\ p[Len(p)] # Wildcard) =>
          (words # <<>> /\ words[Len(words)][2] = Len(p) - 1)
    /\ (\A k \in 1..Len(p) : p[k] = Wildcard) => words = <<>>

C15_SplitToWords ==
    /\ pm.pc # "new" => SplitRight(pm.pattern, pm.words)
    /\ fm.pc # "new" => SplitRight(fm.pattern, fm.words)

\* a pattern that starts with a wildcard and ends inside its second run
C15_Witness ==
    /\ fm.pc # "new"
    /\ pattern # <<>>
    /\ pattern[1] = Wildcard
    /\ pattern[Len(pattern)] # Wildcard
    /\ Len(pm.words) = 2
    /\ Len(fm.words) = 2
    /\ pm.words[2][2] = Len(pattern) - 1


\* ---------------------------------------------------------------------
\* C16: for a pattern with at least one segment the window of 17.cpp always
\* has exactly m slots, all zero at creation; window_start is 0 while fewer
\* than m symbols were processed, and from the m-th symbol on every processed
\* symbol leaves a zero in the slot that entered and advances window_start by
\* one, so that window_start = max(0, pos - m + 1) after pos symbols.
WindowShape(M) ==
    /\ Len(M.window) = M.pattern_size
    /\ M.counter = 0 => \A i \in DOMAIN M.window : M.window[i] = 0
    /\ M.counter < M.pattern_size => M.window_start = 0
    /\ M.counter >= M.pattern_size =>
          /\ M.window_start = M.counter - M.pattern_size + 1
          /\ M.window[M.pattern_size] = 0

C16_WindowShape ==
    /\ (pm.pc # "new" /\ pm.words # <<>>) => WindowShape(pm)
    /\ (pm2.pc # "new" /\ pm2.words # <<>>) => WindowShape(pm2)

\* the window has been shifted at least twice and still holds a count
C16_Witness ==
    /\ Matching
    /\ pm.words # <<>>
    /\ pm.pattern_size >= 2
    /\ pm.counter >= pm.pattern_size + 1
    /\ pm.window_start = pm.counter - pm.pattern_size + 1
    /\ \E i \in DOMAIN pm.window : pm.window[i] > 0


\* ---------------------------------------------------------------------
\* C17: when do_bfs takes a state s from its queue, every edge of failure(s)
\* has already been completed, so each value copied into a missing edge of s
\* is a state and never the null entry; after do_bfs, the edge (s, c) of
\* every state and symbol leads where a failure-link walk from s on c ends.
TrieGoto(M, n, c) ==
    IF Append(Label(M, n), c) \in Prefixes(M.words)
    THEN StateOf(M, Append(Label(M, n), c))
    ELSE IF n = root THEN root ELSE NULL

RECURSIVE FailureWalk(_, _, _)
FailureWalk(M, n, c) ==
    IF TrieGoto(M, n, c) # NULL THEN TrieGoto(M, n, c)
    ELSE FailureWalk(M, M.link_fail[n], c)

Completed(M, n) ==
    \A c \in Sigma : M.links[n][c] # NULL /\ M.links[n][c] = FailureWalk(M, n, c)

C17_GotoCompletionOrder ==
    /\ ~fm.err
    /\ (fm.pc = "do_bfs" /\ fm.q # <<>>) => Completed(fm, failure(fm, Head(fm.q)))
    /\ fm.pc = "ready" => \A n \in DOMAIN fm.links : Completed(fm, n)

\* do_bfs is about to fill a missing edge of a state whose failure link is
\* not the root
C17_Witness ==
    /\ fm.pc = "do_bfs"
    /\ fm.q # <<>>
    /\ failure(fm, Head(fm.q)) # root
    /\ \E c \in Sigma :
          /\ fm.links[Head(fm.q)][c] = NULL
          /\ fm.links[failure(fm, Head(fm.q))][c] \notin {NULL, root}


\* ---------------------------------------------------------------------
\* C18: construction and stepping terminate.  Each BFS pass (build_failure
\* in both files, do_bfs) pushes and pops every non-root state exactly once
\* and never the root, and its queue is then empty; every failure-link walk
\* the code starts (from the failure state of the popped state on one of its
\* edges in build_failure, from the current state on the next symbol in
\* process of 17.cpp) finds a defined goto at the root at the latest and so
\* never reads the root's null failure link.
PassMachine ==
    IF fm.pc \in {"build_failure", "do_bfs", "ready"} THEN fm
    ELSE IF pm2.pc \in {"build_failure", "ready"} THEN pm2
    ELSE pm

PassRunning == PassMachine.pc \in {"build_failure", "do_bfs", "ready"}

VisitedOnce(M) ==
    /\ DOMAIN visits.enq = DOMAIN M.links
    /\ visits.enq[root] = 0
    /\ \A n \in DOMAIN M.links :
          /\ visits.enq[n] <= 1
          /\ visits.enq[n] = visits.deq[n] + Count(M.q, n)
    /\ M.q = <<>> =>
          \A n \in (DOMAIN M.links) \ {root} : visits.enq[n] = 1 /\ visits.deq[n] = 1

\* how the walk from state on c ends, followed for at most fuel links
RECURSIVE WalkEnd(_, _, _, _, _)
WalkEnd(M, flat, state, c, fuel) ==
    IF state = NULL THEN "null"
    ELSE IF (IF flat THEN flat_goto_(M, state, c) ELSE goto_(M, state, c)) # NULL
         THEN "stopped"
         ELSE IF fuel = 0 THEN "endless"
              ELSE WalkEnd(M, flat, M.link_fail[state], c, fuel - 1)

BuildWalksStop(M, flat) ==
    (M.pc = "build_failure" /\ M.q # <<>>) =>
        \A c \in link_keys(M, Head(M.q)) :
            WalkEnd(M, flat, M.link_fail[Head(M.q)], c, Len(M.links)) = "stopped"

ProcessWalksStop(M) ==
    (M.pc = "ready" /\ M.words # <<>>) =>
        \A c \in Sigma : WalkEnd(M, FALSE, M.state_, c, Len(M.links)) = "stopped"

C18_Terminates ==
    /\ PassRunning => VisitedOnce(PassMachine)
    /\ BuildWalksStop(pm, FALSE)
    /\ BuildWalksStop(pm2, FALSE)
    /\ BuildWalksStop(fm, TRUE)
    /\ ProcessWalksStop(pm)
    /\ ProcessWalksStop(pm2)

\* do_bfs has popped every state of a trie with a state of depth 3, and the
\* machine of 17.cpp stands in a state from which the next symbol needs a
\* walk of two failure links
C18_Witness ==
    /\ fm.pc = "ready"
    /\ Len(fm.links) >= 4
    /\ \A n \in (DOMAIN fm.links) \ {root} : visits.deq[n] = 1
    /\ Matching
    /\ \E c \in Sigma : Len(walk_path(pm, pm.state_, c)) >= 2


\* ---------------------------------------------------------------------
\* C19 as stated: at any time during matching, window slot i holds the number
\* of distinct segments that ended at the absolute text position
\* window_start + i (the position read as the index of the segment's last
\* symbol, or as the number of symbols read when it ended).
EndsAtIndex(w, t, p) ==
    /\ p + 1 <= Len(t)
    /\ p + 1 >= Len(w)
    /\ \A k \in 1..Len(w) : t[p + 1 - Len(w) + k] = w[k]

EndedCount(words, t, p) ==
    Cardinality({k \in 1..Len(words) : EndsAtIndex(words[k][1], t, p)})

SlotsCountEnds(M, shift) ==
    \A i \in DOMAIN M.window :
        M.window[i] = EndedCount(M.words, text, M.window_start + i - 1 - shift)

SlotsCountStarts(M) ==
    \A i \in DOMAIN M.window :
        M.window[i] = SlotCount(M.words, text, M.window_start + i - 1)

SlotOwners(j) ==
    {s \in 0..(fl.pos - 1) :
        s > fl.pos - fl.pattern_size /\ BitAnd(s, MAX_SIZE - 1) = j}

C20_CircularWindow ==
    (fl.pc = "loop" /\ ~fl.at_eof /\ fl.pattern_size \in 1..MAX_SIZE) =>
        /\ \A j \in 0..(MAX_SIZE - 1) :
              /\ Cardinality(SlotOwners(j)) <= 1
              /\ SlotOwners(j) = {} => fl.window[j] = 0
              /\ \A s \in SlotOwners(j) : fl.window[j] = SlotCount(fm.words, text, s)
        /\ \A r \in DOMAIN fl.output :
              \A j \in DOMAIN fl.output[r] : fl.output[r][j] <= fl.pattern_size

\* the array has wrapped around: a start s >= MAX_SIZE has been incremented
\* in the slot that start s - MAX_SIZE had incremented before
C20_Witness ==
    /\ fl.pc = "loop"
    /\ ~fl.at_eof
    /\ fl.pattern_size = MAX_SIZE
    /\ \E s \in MAX_SIZE..(fl.pos - 1) :
          /\ fl.window[BitAnd(s, MAX_SIZE - 1)] >= 1
          /\ SlotCount(fm.words, text, s - MAX_SIZE) >= 1

====
